---------------------------- MODULE Spec2Model ----------------------------
(***************************************************************************)
(* Model of backend/main.py: the name normalizer (norm), the path scorer   *)
(* (score_path_for_ride), the path selector (select_path_for_ride) and the *)
(* /api/route handler with its two outbound ODsay calls.                   *)
(*                                                                         *)
(* Python strings are sequences of one-character strings.  A dict is a    *)
(* record; a key the dict lacks is a field the record lacks, so dict.get   *)
(* is Get below.  Python's None is the value None.                         *)
(***************************************************************************)
EXTENDS Integers, Sequences, FiniteSets, TLC

VARIABLES
    s, n1, n2, npc,            \* norm: argument, norm(s), norm(norm(s)), position
    path, ride, board, drop,   \* score_path_for_ride / get_route: arguments
    ret, spc,                  \* score_path_for_ride: return value, position
    ODSAY_KEY, warned,         \* module level: the credential, the startup warning
    pc, data, sel,             \* get_route: position, routing payload, selector result
    calls, pending,            \* outbound HTTP requests sent so far / those in flight
    replies,                   \* the replies to them received so far
    lane_data, outcome         \* loadLane payload, the response given to the client

normVars == <<s, n1, n2, npc>>
scoreVars == <<path, ret, spc>>
hintVars == <<ride, board, drop>>
reqVars ==
    <<ODSAY_KEY, warned, pc, data, sel, calls, pending, replies, lane_data, outcome>>
vars == <<normVars, scoreVars, hintVars, reqVars>>

-----------------------------------------------------------------------------
(* Bounds of the model. *)

\* longest string handed to norm
MaxLen == 3
\* most legs (subPath entries) of a route handed to the scorer
MaxLegs == 2
\* most routes in result.path
MaxPaths == 2

-----------------------------------------------------------------------------
(* Python values. *)

None == <<"<None>">>

\* the character '번'
SUFFIX == "beon"

\* str.strip() with no argument strips whitespace: the space and the others
\* (tab stands for tab, newline, carriage return, ...)
Whitespace == {" ", "\t"}

\* bool(x) of an Optional[str]
Truthy(x) == x # None /\ x # <<>>

\* dict.get(k, dflt)
Get(d, k, dflt) == IF k \in DOMAIN d THEN d[k] ELSE dflt

\* a in b, for strings
Contains(b, a) ==
    \E i \in 0..(Len(b) - Len(a)) : SubSeq(b, i + 1, i + Len(a)) = a

\* s.strip()
strip(x) ==
    LET keep == {i \in 1..Len(x) : x[i] \notin Whitespace}
        lo == CHOOSE i \in keep : \A j \in keep : i <= j
        hi == CHOOSE i \in keep : \A j \in keep : i >= j
    IN IF keep = {} THEN <<>> ELSE SubSeq(x, lo, hi)

\* s.replace(ch, "") for a one-character ch
replace(x, ch) ==
    LET Keep(c) == c # ch IN SelectSeq(x, Keep)

\* the characters norm removes, in the order of its loop
NormRemoved == <<"(", ")", " ", SUFFIX>>

RECURSIVE RemoveAll(_, _)
RemoveAll(x, chs) ==
    IF chs = <<>> THEN x ELSE RemoveAll(replace(x, Head(chs)), Tail(chs))

norm(x) ==
    IF ~Truthy(x) THEN <<>> ELSE RemoveAll(strip(x), NormRemoved)

-----------------------------------------------------------------------------
(* The normalizer applied to every short string. *)

NormAlphabet == {"(", ")", " ", "\t", SUFFIX, "a", "b"}

RECURSIVE StringsUpTo(_, _)
StringsUpTo(A, n) ==
    IF n = 0 THEN {<<>>}
    ELSE LET shorter == StringsUpTo(A, n - 1)
         IN shorter \cup {Append(x, c) : x \in shorter, c \in A}

NormInputs == {None} \cup StringsUpTo(NormAlphabet, MaxLen)

-----------------------------------------------------------------------------
(* JSON scalars as info.totalTime can hold them. *)

JNull == [t |-> "null"]
JInt(n) == [t |-> "int", v |-> n]
JStr(x) == [t |-> "str", v |-> x]

\* bool(v) of a JSON scalar
JTruthy(jv) ==
    CASE jv.t = "null" -> FALSE
      [] jv.t = "int" -> jv.v # 0
      [] jv.t = "str" -> jv.v # <<>>

Digits == {"0", "1", "2", "3", "4", "5", "6", "7", "8", "9"}

DigitValue(c) ==
    CASE c = "0" -> 0 [] c = "1" -> 1 [] c = "2" -> 2 [] c = "3" -> 3
      [] c = "4" -> 4 [] c = "5" -> 5 [] c = "6" -> 6 [] c = "7" -> 7
      [] c = "8" -> 8 [] c = "9" -> 9

RECURSIVE ParseDecimal(_)
ParseDecimal(x) ==
    IF x = <<>> THEN 0
    ELSE 10 * ParseDecimal(SubSeq(x, 1, Len(x) - 1)) + DigitValue(x[Len(x)])

\* int(v): an int is itself, a string of decimal digits is parsed, any other
\* string raises ValueError
PyInt(jv) ==
    CASE jv.t = "int" -> [ok |-> TRUE, v |-> jv.v]
      [] jv.t = "str" ->
            IF jv.v # <<>> /\ \A i \in 1..Len(jv.v) : jv.v[i] \in Digits
            THEN [ok |-> TRUE, v |-> ParseDecimal(jv.v)]
            ELSE [ok |-> FALSE, exc |-> "ValueError"]
      [] OTHER -> [ok |-> FALSE, exc |-> "TypeError"]

\* 10**9, the totalTime of a route that has none
SENTINEL == 1000000000

EmptyDict == [k \in {} |-> None]

-----------------------------------------------------------------------------
(* score_path_for_ride *)

\* total_time = int(info.get("totalTime") or 10**9)
TotalTime(info) ==
    LET jv == Get(info, "totalTime", JNull)
    IN PyInt(IF JTruthy(jv) THEN jv ELSE JInt(SENTINEL))

\* the candidates list built for one lane
Candidates(ttype, lane) ==
    LET bus_no == Get(lane, "busNo", None)
        name == Get(lane, "name", None)
    IN (IF ttype = 2
        THEN (IF Truthy(bus_no) THEN <<bus_no>> ELSE <<>>)
             \o (IF Truthy(name) THEN <<name>> ELSE <<>>)
        ELSE <<>>)
       \o (IF ttype = 1 /\ Truthy(name) THEN <<name>> ELSE <<>>)

\* the loop over one lane's candidates: 10 at the first match, then break
LaneScore(ttype, lane, ride_n) ==
    LET candidates == Candidates(ttype, lane)
    IN IF \E i \in 1..Len(candidates) :
              Truthy(ride_n) /\ Contains(norm(candidates[i]), ride_n)
       THEN 10 ELSE 0

RECURSIVE LanesScore(_, _, _)
\* the loop over the lanes of one leg
LanesScore(ttype, lanes, ride_n) ==
    IF lanes = <<>> THEN 0
    ELSE LaneScore(ttype, Head(lanes), ride_n) + LanesScore(ttype, Tail(lanes), ride_n)

\* one iteration of the loop over sub_paths
LegScore(sp, ride_n) ==
    LET ttype == Get(sp, "trafficType", 0)
    IN IF ttype \notin {1, 2} THEN 0
       ELSE LanesScore(ttype, Get(sp, "lane", <<>>), ride_n)

RECURSIVE RideScore(_, _)
\* the loop over sub_paths of the ride matching
RideScore(sub_paths, ride_n) ==
    IF sub_paths = <<>> THEN 0
    ELSE LegScore(Head(sub_paths), ride_n) + RideScore(Tail(sub_paths), ride_n)

\* the stations of one leg
Stations(sp) ==
    LET pass_list == Get(sp, "passStopList", EmptyDict)
        stations == Get(pass_list, "stations", <<>>)
    IN IF stations # <<>> THEN stations ELSE Get(pass_list, "station", <<>>)

RECURSIVE StationNamesNorm(_)
\* station_names_norm
StationNamesNorm(sub_paths) ==
    IF sub_paths = <<>> THEN <<>>
    ELSE LET sts == Stations(Head(sub_paths))
         IN [i \in 1..Len(sts) |-> norm(Get(sts[i], "stationName", None))]
            \o StationNamesNorm(Tail(sub_paths))

\* StopBonus with a fault: 5 for every stop that matches
StopBonusPerStop(hint_n, names) ==
    IF Truthy(hint_n)
    THEN 5 * Cardinality({i \in 1..Len(names) : Contains(names[i], hint_n)})
    ELSE 0

\* hint_n and any(hint_n in s for s in station_names_norm)
StopBonus(hint_n, names) ==
    IF Truthy(hint_n) /\ \E i \in 1..Len(names) : Contains(names[i], hint_n)
    THEN 5 ELSE 0

score_path_for_ride(p, r, b, d) ==
    LET ride_n == norm(r)
        board_n == norm(b)
        drop_n == norm(d)
        info == Get(p, "info", EmptyDict)
        total_time == TotalTime(info)
        sub_paths == Get(p, "subPath", <<>>)
        station_names_norm == StationNamesNorm(sub_paths)
        score == (IF Truthy(ride_n) THEN RideScore(sub_paths, ride_n) ELSE 0)
                 + StopBonus(board_n, station_names_norm)
                 + StopBonus(drop_n, station_names_norm)
    IN IF total_time.ok
       THEN [ok |-> TRUE, score |-> score, total_time |-> total_time.v]
       ELSE total_time

-----------------------------------------------------------------------------
(* Routes the scorer is run on. *)

LaneBare == [type |-> 1]
LaneBoth == [type |-> 1, busNo |-> <<"a">>, name |-> <<"(", "b", ")", " ", "a">>]
LaneNo == [type |-> 1, busNo |-> <<"a", SUFFIX>>]
LaneName == [type |-> 1, name |-> <<"a">>]
LaneOther == [type |-> 1, busNo |-> <<"b">>, name |-> None]

StopX == [stationName |-> <<"x">>]
StopXY == [stationName |-> <<"(", "x", ")", " ", "y">>]
StopY == [stationName |-> <<"y">>]
StopAnon == [stationID |-> 7]

\* legs: trafficType 1 subway, 2 bus, 3 walk
LegPool ==
    { [trafficType |-> 3],
      [trafficType |-> 3, lane |-> <<LaneName>>,
       passStopList |-> [stations |-> <<StopX>>]],
      [trafficType |-> 2],
      [trafficType |-> 2, lane |-> <<LaneBare>>,
       passStopList |-> [stations |-> <<>>, station |-> <<StopY, StopAnon>>]],
      [trafficType |-> 2, lane |-> <<LaneBoth>>],
      [trafficType |-> 2, lane |-> <<LaneNo, LaneName>>],
      [trafficType |-> 2, lane |-> <<LaneOther, LaneName>>,
       passStopList |-> [stations |-> <<StopX, StopXY>>]],
      [trafficType |-> 2, lane |-> <<LaneName>>,
       passStopList |-> [stations |-> <<StopX, StopXY>>]],
      [trafficType |-> 1, lane |-> <<LaneNo>>],
      [trafficType |-> 1, lane |-> <<LaneName>>,
       passStopList |-> [station |-> <<StopY>>]],
      [trafficType |-> 1, lane |-> <<LaneBoth, LaneName>>],
      [trafficType |-> 1, lane |-> <<LaneOther>>,
       passStopList |-> [stations |-> <<StopXY>>]] }

RECURSIVE SeqsUpTo(_, _)
SeqsUpTo(S, n) ==
    IF n = 0 THEN {<<>>}
    ELSE LET shorter == SeqsUpTo(S, n - 1)
         IN shorter \cup {Append(x, e) : x \in shorter, e \in S}

TotalTimePool ==
    {JInt(0), JInt(30), JStr(<<"3", "0">>), JStr(<<"3", "x">>)}

ScorePaths ==
    {[pathType |-> 3, subPath |-> sp] : sp \in SeqsUpTo(LegPool, MaxLegs)}
    \cup {[pathType |-> 3, info |-> [mapObj |-> <<"m">>], subPath |-> sp] :
              sp \in SeqsUpTo(LegPool, MaxLegs)}
    \cup {[pathType |-> 3, info |-> [mapObj |-> <<"m">>, totalTime |-> tt]] :
              tt \in TotalTimePool \cup {JNull}}
    \cup {[pathType |-> 3, info |-> [mapObj |-> <<"m">>, totalTime |-> tt],
           subPath |-> <<leg>>] : tt \in TotalTimePool, leg \in LegPool}

RideHints == {<<>>, <<" ">>, <<"a", SUFFIX>>}
BoardHints == {<<>>, <<"x">>}
DropHints == {<<>>, <<"y">>, <<"b">>}

-----------------------------------------------------------------------------
(* Values of variables that hold nothing yet. *)

NotReturned == [ok |-> FALSE, exc |-> "<pending>"]
NoData == [t |-> "unset"]

NormOff == s = None /\ n1 = None /\ n2 = None /\ npc = "off"
ScoreOff == path = NoData /\ ret = NotReturned /\ spc = "off"
HintsOff == ride = <<>> /\ board = <<>> /\ drop = <<>>
ReqOff ==
    /\ ODSAY_KEY = None /\ warned = FALSE /\ pc = "off"
    /\ data = NoData /\ sel = NotReturned /\ calls = <<>> /\ pending = {}
    /\ replies = <<>>
    /\ lane_data = NoData /\ outcome = NotReturned

-----------------------------------------------------------------------------
(* SpecNorm: norm applied once and twice to every input. *)

InitNorm ==
    /\ s \in NormInputs
    /\ n1 = None /\ n2 = None /\ npc = "call"
    /\ ScoreOff /\ HintsOff /\ ReqOff

NormOnce ==
    /\ npc = "call"
    /\ n1' = norm(s)
    /\ npc' = "once"
    /\ UNCHANGED <<s, n2, scoreVars, hintVars, reqVars>>

NormTwice ==
    /\ npc = "once"
    /\ n2' = norm(n1)
    /\ npc' = "twice"
    /\ UNCHANGED <<s, n1, scoreVars, hintVars, reqVars>>

NextNorm == NormOnce \/ NormTwice

SpecNorm == InitNorm /\ [][NextNorm]_vars

-----------------------------------------------------------------------------
(* SpecScore: score_path_for_ride applied to every route and hint triple. *)

InitScore ==
    /\ path \in ScorePaths
    /\ ride \in RideHints /\ board \in BoardHints /\ drop \in DropHints
    /\ ret = NotReturned /\ spc = "call"
    /\ NormOff /\ ReqOff

Score ==
    /\ spc = "call"
    /\ ret' = score_path_for_ride(path, ride, board, drop)
    /\ spc' = "returned"
    /\ UNCHANGED <<path, hintVars, normVars, reqVars>>

NextScore == Score

SpecScore == InitScore /\ [][NextScore]_vars

-----------------------------------------------------------------------------
(* select_path_for_ride *)

HTTPException(status_code, detail) ==
    [ok |-> FALSE, exc |-> "HTTPException",
     status_code |-> status_code, detail |-> detail]

\* LocatePaths with a fault: data.get("result", {}).get("path", [])
LocatePathsLenient(d) ==
    IF d = JNull THEN [ok |-> FALSE, exc |-> "TypeError"]
    ELSE IF "result" \notin DOMAIN d THEN [ok |-> TRUE, v |-> <<>>]
    ELSE IF d.result = JNull THEN [ok |-> FALSE, exc |-> "TypeError"]
    ELSE IF "path" \notin DOMAIN d.result THEN [ok |-> TRUE, v |-> <<>>]
    ELSE [ok |-> TRUE, v |-> d.result.path]

\* paths = data["result"]["path"], which raises KeyError or TypeError
LocatePaths(d) ==
    IF d = JNull THEN [ok |-> FALSE, exc |-> "TypeError"]
    ELSE IF "result" \notin DOMAIN d THEN [ok |-> FALSE, exc |-> "KeyError"]
    ELSE IF d.result = JNull THEN [ok |-> FALSE, exc |-> "TypeError"]
    ELSE IF "path" \notin DOMAIN d.result THEN [ok |-> FALSE, exc |-> "KeyError"]
    ELSE [ok |-> TRUE, v |-> d.result.path]

\* best = None
NoBest == [none |-> TRUE]

\* Replaces with a fault: tt <= b_tt, so the later of two equal routes wins
ReplacesOnTie(sc, tt, b_sc, b_tt) == sc > b_sc \/ (sc = b_sc /\ tt <= b_tt)

\* sc > b_sc or (sc == b_sc and tt < b_tt)
Replaces(sc, tt, b_sc, b_tt) == sc > b_sc \/ (sc = b_sc /\ tt < b_tt)

RECURSIVE Scan(_, _, _, _, _, _)
\* the loop over paths from position i on; a scorer exception ends it
Scan(paths, i, best, r, b, d) ==
    IF i > Len(paths) THEN [ok |-> TRUE, best |-> best]
    ELSE LET res == score_path_for_ride(paths[i], r, b, d)
             cur == [sc |-> res.score, tt |-> res.total_time, p |-> paths[i]]
             take == \/ best = NoBest
                     \/ Replaces(res.score, res.total_time, best.sc, best.tt)
         IN IF ~res.ok THEN res
            ELSE Scan(paths, i + 1, IF take THEN cur ELSE best, r, b, d)

\* Finish with a fault: no fallback to paths[0] when the best score is 0
FinishNoFallback(best, paths) ==
    IF best = NoBest THEN paths[1] ELSE best.p

\* what is returned once the loop is over
Finish(best, paths) ==
    IF best = NoBest THEN paths[1]
    ELSE IF best.sc = 0 THEN paths[1]
    ELSE best.p

\* if not paths
NoPaths(paths) == paths = <<>>

select_path_for_ride(d, r, b, dr) ==
    LET located == LocatePaths(d)
    IN IF ~located.ok
       THEN HTTPException(500, "path missing")
       ELSE IF NoPaths(located.v)
       THEN HTTPException(404, "no route found")
       ELSE IF ~(Truthy(r) \/ Truthy(b) \/ Truthy(dr))
       THEN [ok |-> TRUE, path |-> located.v[1]]
       ELSE LET scan == Scan(located.v, 1, NoBest, r, b, dr)
            IN IF ~scan.ok THEN scan
               ELSE [ok |-> TRUE, path |-> Finish(scan.best, located.v)]

-----------------------------------------------------------------------------
(* odsay_get, get_map_obj, get_lane_graph *)

\* odsay_get_send with a fault: no credential check
odsay_get_send_unchecked(key, endpoint, params) ==
    [ok |-> TRUE,
     request |-> [endpoint |-> endpoint, apiKey |-> key, params |-> params]]

\* odsay_get up to client.get: the credential check and the request sent
odsay_get_send(key, endpoint, params) ==
    IF ~Truthy(key)
    THEN HTTPException(500, "ODSAY_API_KEY missing")
    ELSE [ok |-> TRUE,
          request |-> [endpoint |-> endpoint, apiKey |-> key, params |-> params]]

\* odsay_get from the reply on: raise_for_status, resp.json(), the error check
odsay_get_receive(reply) ==
    IF reply.kind \in {"transport_error", "bad_status"}
    THEN HTTPException(502, "ODSAY HTTP error")
    ELSE IF reply.kind = "not_json"
    THEN [ok |-> FALSE, exc |-> "JSONDecodeError"]
    ELSE IF reply.body # JNull /\ "error" \in DOMAIN reply.body
    THEN HTTPException(502,
            <<"ODSAY error", Get(reply.body.error, "code", ""),
              Get(reply.body.error, "msg", "ODSAY error")>>)
    ELSE [ok |-> TRUE, data |-> reply.body]

\* the fixed destination, as the decimal strings of LIB_LNG and LIB_LAT
LIB_LNG == <<"1", "2", "6", ".", "9", "3", "6", "8", "9", "8">>
LIB_LAT == <<"3", "7", ".", "5", "6", "3", "7", "2", "9">>

\* the parameters of the searchPubTransPathT call; SX, SY are the request's
\* from_lng, from_lat
RoutingParams ==
    [SX |-> "from_lng", SY |-> "from_lat", EX |-> LIB_LNG, EY |-> LIB_LAT,
     OPT |-> 0, SearchPathType |-> 0]

\* {"mapObject": f"0:0@{map_obj}"}
LaneParams(map_obj) == [mapObject |-> <<"0", ":", "0", "@">> \o map_obj]

\* MapObjOf with a fault: no check that the selected path has a mapObj
MapObjOfUnchecked(p) ==
    [ok |-> TRUE, v |-> Get(Get(p, "info", EmptyDict), "mapObj", None)]

\* info.get("mapObj") of the selected path, or the 500 raised without it
MapObjOf(p) ==
    LET map_obj == Get(Get(p, "info", EmptyDict), "mapObj", None)
    IN IF ~Truthy(map_obj)
       THEN HTTPException(500, "no mapObj")
       ELSE [ok |-> TRUE, v |-> map_obj]

\* RouteResponse with a fault: only the payload's result is returned
RouteResponseUnwrapped(payload) ==
    [ok |-> TRUE, status_code |-> 200, body |-> Get(payload, "result", JNull)]

\* get_route returns lane_data as it is
RouteResponse(payload) == [ok |-> TRUE, status_code |-> 200, body |-> payload]

\* the response FastAPI gives for what the handler raised
ErrorResponse(raised) ==
    IF raised.exc = "HTTPException" THEN raised
    ELSE [ok |-> FALSE, exc |-> raised.exc, status_code |-> 500,
          detail |-> "Internal Server Error"]

-----------------------------------------------------------------------------
(* What the ODsay service can answer. *)

LegWalk == [trafficType |-> 3]
LegBus ==
    [trafficType |-> 2, lane |-> <<LaneName>>,
     passStopList |-> [stations |-> <<StopX, StopXY>>]]
LegSubway ==
    [trafficType |-> 1, lane |-> <<LaneOther>>,
     passStopList |-> [stations |-> <<StopXY>>]]

InfoPool ==
    { [payment |-> 0, mapObj |-> <<"m", "1">>],
      [payment |-> 0, totalTime |-> JInt(30), mapObj |-> <<"m", "1">>],
      [payment |-> 0, totalTime |-> JInt(40), mapObj |-> <<"m", "2">>],
      [payment |-> 0, totalTime |-> JInt(30)],
      [payment |-> 0, totalTime |-> JInt(0), mapObj |-> <<"m", "2">>],
      [payment |-> 0, totalTime |-> JStr(<<"3", "x">>), mapObj |-> <<"m", "1">>] }

PathPool ==
    {[pathType |-> 3]}
    \cup {[pathType |-> 3, info |-> i, subPath |-> <<leg>>] :
              i \in InfoPool, leg \in {LegWalk, LegBus, LegSubway}}

ErrorPayload == [error |-> [code |-> "500", msg |-> "server error"]]

RoutingPayloads ==
    { JNull, ErrorPayload, [searchType |-> 0], [result |-> JNull],
      [result |-> [searchType |-> 0]] }
    \cup {[result |-> [searchType |-> 0, path |-> ps]] :
              ps \in SeqsUpTo(PathPool, MaxPaths)}

LanePayloads ==
    { JNull, ErrorPayload,
      [result |-> [lane |-> <<"g", "1">>]], [result |-> [lane |-> <<"g", "2">>]] }

Replies(payloads) ==
    {[kind |-> "transport_error"], [kind |-> "bad_status"], [kind |-> "not_json"]}
    \cup {[kind |-> "json", body |-> b] : b \in payloads}

\* the ride, board, drop query parameters of a request
HintTriples ==
    { <<<<>>, <<>>, <<>>>>,
      <<<<"a", SUFFIX>>, <<>>, <<>>>>,
      <<<<"a", SUFFIX>>, <<"x">>, <<"y">>>>,
      <<<<" ">>, <<>>, <<>>>>,
      <<<<>>, <<>>, <<"b">>>> }

\* os.getenv("ODSAY_API_KEY"): unset, set to the empty string, set
KeyValues == {None, <<>>, <<"k">>}

-----------------------------------------------------------------------------
(* Spec: the process from module load on, serving /api/route requests. *)

Init ==
    /\ ODSAY_KEY \in KeyValues
    /\ warned = FALSE
    /\ pc = "boot"
    /\ data = NoData /\ sel = NotReturned
    /\ calls = <<>> /\ pending = {} /\ replies = <<>>
    /\ lane_data = NoData /\ outcome = NotReturned
    /\ HintsOff /\ NormOff /\ ScoreOff

\* module load: the warning is printed, nothing is raised
Startup ==
    /\ pc = "boot"
    /\ warned' = ~Truthy(ODSAY_KEY)
    /\ pc' = "idle"
    /\ UNCHANGED <<ODSAY_KEY, data, sel, calls, pending, replies, lane_data,
                   outcome, hintVars, normVars, scoreVars>>

\* get_route up to the first blocking call: get_map_obj calls odsay_get
GetRoute ==
    /\ pc = "idle"
    /\ \E h \in HintTriples :
          /\ ride' = h[1] /\ board' = h[2] /\ drop' = h[3]
          /\ LET sent == odsay_get_send(ODSAY_KEY, "searchPubTransPathT",
                                        RoutingParams)
             IN IF sent.ok
                THEN /\ calls' = Append(calls, sent.request)
                     /\ pending' = pending \cup {sent.request}
                     /\ pc' = "routing"
                     /\ UNCHANGED outcome
                ELSE /\ outcome' = ErrorResponse(sent)
                     /\ pc' = "done"
                     /\ UNCHANGED <<calls, pending>>
    /\ UNCHANGED <<ODSAY_KEY, warned, data, sel, replies, lane_data, normVars,
                   scoreVars>>

\* get_map_obj once select_path_for_ride is over: the mapObj or what was raised
MapObjStep(d, chosen) ==
    IF ~chosen.ok
    THEN [ok |-> FALSE, raised |-> chosen, data |-> d, sel |-> chosen]
    ELSE [ok |-> MapObjOf(chosen.path).ok, raised |-> MapObjOf(chosen.path),
          data |-> d, sel |-> chosen]

\* get_map_obj from the routing reply on
get_map_obj_rest(reply, r, b, d) ==
    LET got == odsay_get_receive(reply)
    IN IF ~got.ok
       THEN [ok |-> FALSE, raised |-> got, data |-> NoData, sel |-> NotReturned]
       ELSE MapObjStep(got.data, select_path_for_ride(got.data, r, b, d))

\* get_lane_graph up to its blocking call
get_lane_graph_send(key, map_obj) ==
    odsay_get_send(key, "loadLane", LaneParams(map_obj))

\* the routing call returns: the rest of odsay_get and of get_map_obj, then
\* get_lane_graph up to its blocking call
RoutingReply ==
    /\ pc = "routing"
    /\ \E reply \in Replies(RoutingPayloads) :
        \E res \in {get_map_obj_rest(reply, ride, board, drop)} :
          /\ replies' = Append(replies, reply)
          /\ data' = res.data
          /\ sel' = res.sel
          /\ \E sent \in {IF res.ok THEN get_lane_graph_send(ODSAY_KEY, res.raised.v)
                           ELSE res.raised} :
               IF sent.ok
               THEN /\ calls' = Append(calls, sent.request)
                    /\ pending' = {sent.request}
                    /\ pc' = "lane"
                    /\ UNCHANGED outcome
               ELSE /\ outcome' = ErrorResponse(sent)
                    /\ pending' = {}
                    /\ pc' = "done"
                    /\ UNCHANGED calls
    /\ UNCHANGED <<ODSAY_KEY, warned, lane_data, hintVars, normVars, scoreVars>>

\* the lane call returns: the rest of odsay_get, get_lane_graph and get_route
LaneReply ==
    /\ pc = "lane"
    /\ \E reply \in Replies(LanePayloads) :
          LET got == odsay_get_receive(reply)
          IN /\ replies' = Append(replies, reply)
             /\ lane_data' = IF got.ok THEN got.data ELSE lane_data
             /\ outcome' = IF got.ok THEN RouteResponse(got.data)
                           ELSE ErrorResponse(got)
    /\ pending' = {}
    /\ pc' = "done"
    /\ UNCHANGED <<ODSAY_KEY, warned, data, sel, calls, hintVars, normVars,
                   scoreVars>>

\* the response is sent; the request's locals are gone
Respond ==
    /\ pc = "done"
    /\ pc' = "idle"
    /\ data' = NoData /\ sel' = NotReturned
    /\ calls' = <<>> /\ pending' = {} /\ replies' = <<>>
    /\ lane_data' = NoData /\ outcome' = NotReturned
    /\ ride' = <<>> /\ board' = <<>> /\ drop' = <<>>
    /\ UNCHANGED <<ODSAY_KEY, warned, normVars, scoreVars>>

Next == Startup \/ GetRoute \/ RoutingReply \/ LaneReply \/ Respond

Spec == Init /\ [][Next]_vars

-----------------------------------------------------------------------------
(* What a route holds, stated without the scorer's loops. *)

\* the names of a lane that take part in ride matching
LaneNames(ttype, lane) ==
    {nm \in {Get(lane, "busNo", None), Get(lane, "name", None)} :
        /\ Truthy(nm)
        /\ \/ ttype = 2
           \/ ttype = 1 /\ nm = Get(lane, "name", None)}

LaneMatches(ttype, lane, hint) ==
    /\ Truthy(norm(hint))
    /\ \E nm \in LaneNames(ttype, lane) : Contains(norm(nm), norm(hint))

\* the (leg, lane) positions of a route whose lane matches the ride hint
MatchingLanes(p, hint) ==
    LET sps == Get(p, "subPath", <<>>)
        lanes(i) == Get(sps[i], "lane", <<>>)
    IN UNION {{<<i, j>> : j \in {k \in 1..Len(lanes(i)) :
                  LaneMatches(Get(sps[i], "trafficType", 0), lanes(i)[k], hint)}} :
              i \in 1..Len(sps)}

\* the legs of a route with at least one matching lane
MatchingLegs(p, hint) == {ij[1] : ij \in MatchingLanes(p, hint)}

\* the (leg, stop) positions of a route whose stop name matches the hint
MatchingStops(p, hint) ==
    LET sps == Get(p, "subPath", <<>>)
    IN UNION {{<<i, j>> : j \in {k \in 1..Len(Stations(sps[i])) :
                  /\ Truthy(norm(hint))
                  /\ Contains(norm(Get(Stations(sps[i])[k], "stationName", None)),
                              norm(hint))}} :
              i \in 1..Len(sps)}

StopPoints(p, hint) == IF MatchingStops(p, hint) = {} THEN 0 ELSE 5

Returned == spc = "returned"

-----------------------------------------------------------------------------
(* Claims about norm and score_path_for_ride. *)

\* C7: norm never fails and is idempotent, norm(norm(x)) = norm(x), for every
\* input: None, the empty string, and the strings over parentheses, the
\* space, other whitespace, the suffix character and ordinary characters.
C7_NormIdempotent == npc = "twice" => n2 = n1

\* C8 as claimed: a route whose lanes match the ride hint and whose stops
\* match the board hint and the drop hint scores exactly 20.
C8_ScoreExactly20 ==
    (/\ Returned
     /\ MatchingLanes(path, ride) # {}
     /\ MatchingStops(path, board) # {}
     /\ MatchingStops(path, drop) # {})
    => ret.ok /\ ret.score = 20

\* C8 amended: when the scorer returns for such a route, the score is at
\* least 20, and it is exactly 20 when exactly one subway or bus lane of the
\* route matches the ride hint (board and drop add 5 each, once).
C8_ScoreAtLeast20 ==
    (/\ Returned /\ ret.ok
     /\ MatchingLanes(path, ride) # {}
     /\ MatchingStops(path, board) # {}
     /\ MatchingStops(path, drop) # {})
    => /\ ret.score >= 20
       /\ Cardinality(MatchingLanes(path, ride)) = 1 => ret.score = 20

\* a route with one matching lane, two stops matching the board hint and
\* one stop matching the drop hint has been scored
C8_Witness ==
    /\ Returned /\ ret.ok
    /\ Cardinality(MatchingLanes(path, ride)) = 1
    /\ Cardinality(MatchingStops(path, board)) = 2
    /\ MatchingStops(path, drop) # {}

\* C9: with a non-empty normalized ride hint every subway or bus leg adds 10
\* if one of its lanes matches and 0 otherwise, however many of its lanes
\* match; walk legs add nothing.
C9_TenPerLeg ==
    (Returned /\ ret.ok /\ Truthy(norm(ride)))
    => ret.score = 10 * Cardinality(MatchingLegs(path, ride))
                   + StopPoints(path, board) + StopPoints(path, drop)

\* C10: the totalTime returned is info.totalTime whenever that is an
\* integer, 0 included; when it is absent or not parseable the scorer still
\* returns, with a sentinel above every real totalTime.
C10_TotalTime ==
    Returned =>
        LET jv == Get(Get(path, "info", EmptyDict), "totalTime", JNull)
        IN /\ jv.t = "int" => ret.ok /\ ret.total_time = jv.v
           /\ (jv.t = "null" \/ (jv.t = "str" /\ ~PyInt(jv).ok))
                  => ret.ok /\ ret.total_time = SENTINEL

-----------------------------------------------------------------------------
(* Claims about select_path_for_ride and the request. *)

\* the routing payload holds result.path
HasPaths(d) ==
    /\ d # JNull /\ "result" \in DOMAIN d
    /\ d.result # JNull /\ "path" \in DOMAIN d.result

\* select_path_for_ride has been called on data with a route list in it
Selected == sel # NotReturned /\ HasPaths(data)

Routes == data.result.path

SomeHint == Truthy(ride) \/ Truthy(board) \/ Truthy(drop)

ScoreAt(i) == score_path_for_ride(Routes[i], ride, board, drop)

\* every route of the list gets a score from the scorer
AllScored == \A i \in 1..Len(Routes) : ScoreAt(i).ok

\* route i is ahead of route j: higher score, or the same score and a
\* shorter totalTime, or the same of both and not later in the list
Ahead(i, j) ==
    \/ ScoreAt(i).score > ScoreAt(j).score
    \/ /\ ScoreAt(i).score = ScoreAt(j).score
       /\ \/ ScoreAt(i).total_time < ScoreAt(j).total_time
          \/ /\ ScoreAt(i).total_time = ScoreAt(j).total_time
             /\ i <= j

\* C1: with some hint given and some route scoring above 0, the route
\* returned is the one with the highest score, among those the one with the
\* smallest totalTime, among those the earliest in the list.
C1_SelectBest ==
    (/\ Selected /\ Routes # <<>> /\ SomeHint /\ AllScored
     /\ \E i \in 1..Len(Routes) : ScoreAt(i).score > 0)
    => /\ sel.ok
       /\ \E i \in 1..Len(Routes) :
             /\ sel.path = Routes[i]
             /\ \A j \in 1..Len(Routes) : Ahead(i, j)

\* the second route was returned: it scores higher than the first, whose
\* totalTime is shorter
C1_Witness ==
    /\ Selected /\ Len(Routes) = 2 /\ SomeHint /\ AllScored
    /\ ScoreAt(2).score > ScoreAt(1).score
    /\ ScoreAt(2).total_time > ScoreAt(1).total_time
    /\ sel.ok /\ sel.path = Routes[2] /\ Routes[2] # Routes[1]

\* C2: with some hint given and every route scoring 0 the first route is
\* returned, as it is with no hint at all; and when some route scores above
\* 0 the route returned is one that scores above 0.
C2_FallbackFirst ==
    (Selected /\ Routes # <<>> /\ SomeHint /\ AllScored)
    => /\ sel.ok
       /\ (\A i \in 1..Len(Routes) : ScoreAt(i).score = 0)
             => /\ sel.path = Routes[1]
                /\ sel = select_path_for_ride(data, <<>>, <<>>, <<>>)
       /\ (\E i \in 1..Len(Routes) : ScoreAt(i).score > 0)
             => score_path_for_ride(sel.path, ride, board, drop).score > 0

\* every route scored 0, the second with the shorter totalTime, and the
\* first was returned
C2_Witness ==
    /\ Selected /\ Len(Routes) = 2 /\ SomeHint /\ AllScored
    /\ \A i \in 1..2 : ScoreAt(i).score = 0
    /\ ScoreAt(2).total_time < ScoreAt(1).total_time
    /\ sel.ok /\ sel.path = Routes[1] /\ Routes[2] # Routes[1]

\* C3: whatever the hints, the selector raises the 500 when result or
\* result.path is missing and the 404 when result.path is empty; it returns
\* no route, and that error is the response of the request.
C3_SelectErrors ==
    sel # NotReturned =>
        /\ ~HasPaths(data) =>
              /\ ~sel.ok /\ sel.exc = "HTTPException" /\ sel.status_code = 500
              /\ pc = "done" /\ outcome = sel
        /\ (HasPaths(data) /\ Routes = <<>>) =>
              /\ ~sel.ok /\ sel.exc = "HTTPException" /\ sel.status_code = 404
              /\ pc = "done" /\ outcome = sel

\* a request with hints ended with the 404 of an empty route list
C3_Witness ==
    /\ pc = "done" /\ SomeHint /\ Selected /\ Routes = <<>>
    /\ outcome.status_code = 404

\* a request with hints ended with the 500 of a missing route list
C3_WitnessMissing ==
    /\ pc = "done" /\ SomeHint /\ sel # NotReturned /\ ~HasPaths(data)
    /\ outcome.status_code = 500

\* C4: a request sends at most two outbound calls, the routing call first
\* and the lane call second, never two at a time and none twice; the lane
\* call is sent only once the routing call has returned a payload without
\* error, the selector has returned a route and that route has a mapObj.
C4_CallOrder ==
    /\ Len(calls) <= 2
    /\ Cardinality(pending) <= 1
    /\ Len(calls) >= 1 => calls[1].endpoint = "searchPubTransPathT"
    /\ Len(calls) = 2 =>
          /\ calls[2].endpoint = "loadLane"
          /\ calls[1] \notin pending
          /\ Len(replies) >= 1 /\ replies[1].kind = "json"
          /\ data = replies[1].body /\ "error" \notin DOMAIN data
          /\ sel.ok
          /\ "info" \in DOMAIN sel.path /\ "mapObj" \in DOMAIN sel.path.info
          /\ Truthy(sel.path.info.mapObj)

\* both calls have been sent and the second is in flight
C4_Witness ==
    /\ pc = "lane" /\ Len(calls) = 2 /\ Cardinality(pending) = 1

\* the status the claim gives to the way a request failed; a selected route
\* without mapObj, and what the handler does not catch, end as a 500
ClaimedStatus ==
    LET last == replies[Len(replies)]
    IN IF last.kind \in {"transport_error", "bad_status"} THEN {502}
       ELSE IF last.kind = "json" /\ last.body # JNull
               /\ "error" \in DOMAIN last.body THEN {502}
       ELSE IF last.kind = "json" /\ Len(replies) = 1 /\ ~HasPaths(last.body)
            THEN {500}
       ELSE IF last.kind = "json" /\ Len(replies) = 1 /\ last.body.result.path = <<>>
            THEN {404}
       ELSE {500}

\* C5: a request ends either with the lane payload as received, asked for
\* with the handle "0:0@" + mapObj of the route selected, or with one error
\* of the status its cause has; the failed call is the last one sent.
C5_TerminalOutcome ==
    pc = "done" =>
        /\ outcome # NotReturned
        /\ pending = {}
        /\ Len(replies) = Len(calls)
        /\ IF outcome.ok
           THEN /\ Len(calls) = 2 /\ sel.ok
                /\ calls[2].params.mapObject
                      = <<"0", ":", "0", "@">> \o sel.path.info.mapObj
                /\ replies[2].kind = "json"
                /\ outcome.body = replies[2].body
                /\ outcome.status_code = 200
           ELSE /\ Truthy(ODSAY_KEY)
                   => Len(replies) >= 1 /\ outcome.status_code \in ClaimedStatus
                /\ ~Truthy(ODSAY_KEY) => outcome.status_code = 500

\* a request ended with a lane payload that holds a result
C5_Witness ==
    /\ pc = "done" /\ outcome.ok
    /\ outcome.body # JNull /\ "result" \in DOMAIN outcome.body

\* a request ended with the 500 of a selected route without mapObj
C5_WitnessNoMapObj ==
    /\ pc = "done" /\ ~outcome.ok /\ sel.ok /\ Len(calls) = 1
    /\ outcome.status_code = 500

\* C6: without a credential the module still loads (with the warning), and
\* every request ends with the 500 raised at its first call, nothing having
\* been sent; no error arises before that call, and no request is ever sent
\* without a credential.
C6_MissingCredential ==
    /\ \A i \in 1..Len(calls) : Truthy(calls[i].apiKey)
    /\ ~Truthy(ODSAY_KEY) =>
          /\ calls = <<>> /\ pending = {}
          /\ pc \in {"boot", "idle", "done"}
          /\ pc = "boot" => ENABLED Startup
          /\ pc # "boot" => warned
          /\ pc \in {"boot", "idle"} => outcome = NotReturned
          /\ pc = "done" =>
                /\ ~outcome.ok /\ outcome.exc = "HTTPException"
                /\ outcome.status_code = 500

\* without a credential a request has ended
C6_Witness ==
    /\ ~Truthy(ODSAY_KEY) /\ warned /\ pc = "done"
    /\ ~outcome.ok /\ calls = <<>>

====
